---- MODULE Spec2Model ----
(***************************************************************************)
(* Piff calibration core: the joint-mode DECamWavefrontPSF                 *)
(* (piff/des/decam_wavefront_psf.py), the ITERATIVE-mode loop `iterate`    *)
(* (tests/test_gp_interp.py) and the nearest-neighbour interpolant as      *)
(* exercised by tests/test_knn_interp.py.                                  *)
(*                                                                         *)
(* Numbers.  Parameter values are integers in units of 1e-2 (r0 = 0.1 is   *)
(* 10); weights are integers in units of 1/WUnit; the objective chi2/dof   *)
(* is kept as the exact fraction [chi2, dof] and fractions are compared by *)
(* cross-multiplication.  NaN is a distinguished value for which PyEq is   *)
(* false, as `x == x` is in Python.                                        *)
(***************************************************************************)
EXTENDS Integers, Sequences, FiniteSets, TLC

VARIABLES
    \* ---- DECamWavefrontPSF instance ----
    model,          \* self.model: kolmogorov_kwargs['r0'], g1, g2
    misalignment,   \* self.interp.misalignment, 8 x 3 table
    weights,        \* self.weights
    minuit_kwargs,  \* self.minuit_kwargs (the value entries)
    minuit_keys,    \* self.minuit_kwargs (its keys)
    kwargs_minuit,  \* self.kwargs['minuit']
    stars,          \* self.stars
    mstars,         \* self._stars
    shapes,         \* self._shapes
    pc,             \* "idle" | "migrad": where a call of fit stands
    fitargs,        \* the arguments of the running / last call of fit
    minuit,         \* self._minuit: the search's own state
    fit_return,     \* what the last call of fit handed to its caller
    nfits,          \* calls of fit so far
    nupdates,       \* direct calls of update_psf_params so far
    last_call,      \* the last operation, its arguments and the state before it
    pre_fit,        \* the installed parameters when fit was entered
    default_kwargs, \* the dict object that is __init__'s default for minuit_kwargs
    shares_default, \* self.kwargs['minuit'] is that object
    \* ---- iterate(stars, interp) ----
    it,             \* the loop's locals and position
    \* ---- kNNInterp ----
    knn,            \* the interpolant
    star_list,      \* the training stars
    predicted,      \* the result of the last interpolate
    sink,           \* the persistence sink: sub-table name -> table
    knn_read,       \* the interpolant kNNInterp.read returned
    \* ---- GPInterp ----
    gp,             \* the regression interpolant
    gp_read         \* the interpolant GPInterp.read returned

psf_vars == <<model, misalignment, weights, minuit_kwargs, minuit_keys, kwargs_minuit, stars,
              mstars, shapes, pc, fitargs, minuit, fit_return, nfits, nupdates,
              last_call, pre_fit, default_kwargs, shares_default>>
loop_vars == <<it>>
disk_vars == <<sink, knn_read>>
knn_vars == <<knn, star_list, predicted, sink, knn_read>>
gp_vars == <<gp, gp_read>>
vars == <<model, misalignment, weights, minuit_kwargs, minuit_keys, kwargs_minuit, stars,
          mstars, shapes, pc, fitargs, minuit, fit_return, nfits, nupdates,
          last_call, pre_fit, default_kwargs, shares_default, it, knn, star_list, predicted, sink, knn_read,
          gp, gp_read>>

----------------------------------------------------------------------------
(* Bounds *)

MaxStars == 2       \* longest star list handed to fit / iterate / initialize
MaxCalls == 3       \* largest max_iterations (call budget) handed to fit
MaxUpdates == 2     \* direct calls of update_psf_params in one behaviour
MaxFits == 1        \* calls of fit in one behaviour

----------------------------------------------------------------------------
(* Values *)

NaN == -9999        \* np.nan

PyEq(a, b) == a /= NaN /\ b /= NaN /\ a = b     \* Python's == on floats

Abs(a) == IF a < 0 THEN -a ELSE a

RECURSIVE SumSeq(_)
SumSeq(s) == IF s = <<>> THEN 0 ELSE Head(s) + SumSeq(Tail(s))

\* a/b = c/d for fractions with the dof as denominator
FracEq(p, q) == p.chi2 * q.dof = q.chi2 * p.dof
FracLess(p, q) == p.chi2 * q.dof < q.chi2 * p.dof

----------------------------------------------------------------------------
(* The 27 named parameters *)

ScalarNames == <<"r0", "g1", "g2">>

ZNames == << <<"z04d", "z04x", "z04y">>,
             <<"z05d", "z05x", "z05y">>,
             <<"z06d", "z06x", "z06y">>,
             <<"z07d", "z07x", "z07y">>,
             <<"z08d", "z08x", "z08y">>,
             <<"z09d", "z09x", "z09y">>,
             <<"z10d", "z10x", "z10y">>,
             <<"z11d", "z11x", "z11y">> >>

NRows == 8
NCols == 3
Rows == 1..NRows
Cols == 1..NCols

Names == {"r0", "g1", "g2"} \cup {ZNames[i][j] : i \in Rows, j \in Cols}

DefaultR0 == 10     \* 'r0': 0.1

\* the initial values of the search configuration built at construction
DefaultValues == [n \in Names |-> IF n = "r0" THEN DefaultR0 ELSE 0]

\* a call that supplies nothing: every parameter at its NaN default
AllNaN == [n \in Names |-> NaN]

\* **d: the keyword arguments a dict supplies, the rest at their defaults
Kw(d) == [n \in Names |-> IF n \in DOMAIN d THEN d[n] ELSE NaN]

\* dict.update
DictUpdate(d, e) ==
    [n \in (DOMAIN d) \cup (DOMAIN e) |-> IF n \in DOMAIN e THEN e[n] ELSE d[n]]

----------------------------------------------------------------------------
(* update_psf_params *)

\* the scalars installed without the `x == x` tests
ModelFromArgs(old, a) == [r0 |-> a.r0, g1 |-> a.g1, g2 |-> a.g2]

UpdatedModel(old, a) ==
    [r0 |-> IF PyEq(a.r0, a.r0) THEN a.r0 ELSE old.r0,
     g1 |-> IF PyEq(a.g1, a.g1) THEN a.g1 ELSE old.g1,
     g2 |-> IF PyEq(a.g2, a.g2) THEN a.g2 ELSE old.g2]

ArgTable(a) == [i \in Rows |-> [j \in Cols |-> a[ZNames[i][j]]]]

\* np.where(misalignment == misalignment, misalignment, old_misalignment)
NpWhereSet(new, old) ==
    [i \in Rows |-> [j \in Cols |->
        IF PyEq(new[i][j], new[i][j]) THEN new[i][j] ELSE old[i][j]]]

\* the table as a version without the np.where would install it
TableWithoutWhere(old, a) == ArgTable(a)

UpdatedMisalignment(old, a) == NpWhereSet(ArgTable(a), old)

\* the value installed under a parameter's name
InstalledValue(n, m, mis) ==
    IF n = "r0" THEN m.r0
    ELSE IF n = "g1" THEN m.g1
    ELSE IF n = "g2" THEN m.g2
    ELSE LET ij == CHOOSE ij \in Rows \X Cols : ZNames[ij[1]][ij[2]] = n
         IN  mis[ij[1]][ij[2]]

Installed(m, mis) == [n \in Names |-> InstalledValue(n, m, mis)]

----------------------------------------------------------------------------
(* Stars, rendering and shape measurement *)

NDesc == 3          \* entries of a Gaussian shape vector: size, g1, g2

\* observed stars: chip number, pixel position, and the image, kept as the
\* moments a measurement of it yields
StarCatalogue ==
    { [chipnum |-> 1, x |-> 0, y |-> 1, image |-> <<10, 0, 0>>],
      [chipnum |-> 2, x |-> 1, y |-> 0, image |-> <<12, 1, -1>>] }

SeqsUpTo(S, lo, hi) == UNION {[1..n -> S] : n \in lo..hi}

StarLists == SeqsUpTo(StarCatalogue, 1, MaxStars)

\* self.decaminfo.pixel_to_focal(star)
PixelToFocal(star) ==
    [star EXCEPT !.x = star.x + 2 * (star.chipnum - 1)]

\* self.interp.interpolate(star): per-mode offset plus tilts across the focal plane
WavefrontInterpolate(star, mis) ==
    [i \in Rows |-> mis[i][1] + mis[i][2] * star.x + mis[i][3] * star.y]

\* self.model.draw(star): the rendered image, kept as its moments
OpticalDraw(star, m, z) ==
    [star EXCEPT !.image =
        << m.r0 + SumSeq([i \in Rows |-> Abs(z[i])]), m.g1 + z[2], m.g2 + z[3] >>]

\* self.model_comparer.fit(star): the star with its measured shape attached
ComparerFit(star) == [data |-> star, params |-> star.image]

drawStar(star, m, mis) ==
    LET focal == PixelToFocal(star)
    IN  OpticalDraw(focal, m, WavefrontInterpolate(focal, mis))

----------------------------------------------------------------------------
(* The joint-mode objective *)

WUnit == 10                 \* weights are kept in tenths
RawWeights == <<5, 10, 10>> \* weights=np.array([0.5, 1, 1])

\* the weights left as they were supplied
Unnormalized(w) == w

\* self.weights /= self.weights.sum()
Normalize(w) == [k \in DOMAIN w |-> (w[k] * WUnit) \div SumSeq(w)]

\* the same sum with the weights applied along the star axis
WeightedByStar(w, new, old) ==
    [p \in 1..(Len(new) * NDesc) |->
        LET i == ((p - 1) \div NDesc) + 1
            k == ((p - 1) % NDesc) + 1
        IN  w[i] * (new[i][k] - old[i][k]) * (new[i][k] - old[i][k])]

\* np.sum(self.weights * np.square(shapes - self._shapes)): the weights
\* broadcast along the descriptor axis, the sum runs row by row
WeightedSquares(w, new, old) ==
    [p \in 1..(Len(new) * NDesc) |->
        LET i == ((p - 1) \div NDesc) + 1
            k == ((p - 1) % NDesc) + 1
        IN  w[k] * (new[i][k] - old[i][k]) * (new[i][k] - old[i][k])]

\* lines 210-217 of _fit_func, after the parameters are installed
Objective(ms, targets, w, m, mis) ==
    LET new == [i \in 1..Len(ms) |-> ComparerFit(drawStar(ms[i].data, m, mis)).params]
    IN  [chi2 |-> SumSeq(WeightedSquares(w, new, targets)),
         dof  |-> Len(new) * NDesc]

----------------------------------------------------------------------------
(* The search (iminuit.Minuit), as far as fit depends on it *)

NoFraction == [chi2 |-> 0, dof |-> 1]

NoMinuit == [ncalls |-> 0, values |-> AllNaN, fval |-> NoFraction,
             last_fval |-> NoFraction, prev_fval |-> NoFraction, valid |-> FALSE]

NoFitArgs == [chisq_threshold |-> 0, max_iterations |-> 0, skip_fit |-> FALSE]

\* parameters the model's searches and callers vary, and the values they try
ProbeNames == {"r0", "g1", "z04d", "z11y"}
ProbeValues(n) == IF n = "r0" THEN {8, 12} ELSE {1}

OnlyArg(n, v) == [AllNaN EXCEPT ![n] = v]

\* the points a search started at `start` may evaluate
Probes(start) == {start} \cup
    UNION {{[start EXCEPT ![n] = v] : v \in ProbeValues(n)} : n \in ProbeNames}

----------------------------------------------------------------------------
(* DECamWavefrontPSF: construction *)

\* minuit_kwargs as the caller may pass them: the default {} or initial values
UserKwargs ==
    { << >>,
      [n \in {"r0"} |-> 12],
      [n \in {"g1", "z04d", "z06y"} |-> 1] }

\* weights as the caller may pass them: the default or another array
UserWeights == {RawWeights, <<10, 10, 30>>}

\* the constructor calls the model makes
Constructions ==
    {[minuit_kwargs |-> user, weights |-> RawWeights] : user \in UserKwargs}
      \cup {[minuit_kwargs |-> << >>, weights |-> w] : w \in UserWeights}

\* the interpolant's table as DECamWavefront builds it
InitialMisalignment == [i \in Rows |-> [j \in Cols |-> 0]]
InitialModel == [r0 |-> DefaultR0, g1 |-> 0, g2 |-> 0]

NoCall == [op |-> "__init__", args |-> AllNaN,
           model |-> InitialModel, misalignment |-> InitialMisalignment]

\* the limits of a parameter, in units of 1e-2
Limits(n) ==
    IF n = "r0" THEN <<8, 25>>
    ELSE IF n \in {"g1", "g2"} THEN <<-20, 20>>
    ELSE <<-200, 200>>

\* the initial step of a parameter, in units of 1e-4: 1e-4 in the rows of the
\* x and y coefficients, 1e-2 elsewhere
Step(n) == IF \E i \in Rows : n \in {ZNames[i][2], ZNames[i][3]} THEN 1 ELSE 100

\* the name the literal writes a parameter's step under: the rows of the y
\* coefficients say 'error_zNNx', every other row uses the parameter's own name
StepKeyName(n) ==
    IF \E i \in Rows : ZNames[i][3] = n
    THEN ZNames[CHOOSE i \in Rows : ZNames[i][3] = n][2]
    ELSE n

\* one row of the dict literal, lines 86-112
LiteralRow(n) ==
    << <<n, DefaultValues[n]>>,
       <<"fix_" \o n, FALSE>>,
       <<"limit_" \o n, Limits(n)>>,
       <<"error_" \o StepKeyName(n), Step(n)>> >>

\* the parameters in the order of the literal's rows
NameOrder ==
    ScalarNames \o ZNames[1] \o ZNames[2] \o ZNames[3] \o ZNames[4]
                \o ZNames[5] \o ZNames[6] \o ZNames[7] \o ZNames[8]

RECURSIVE LiteralRows(_)
LiteralRows(names) ==
    IF names = << >> THEN << >>
    ELSE LiteralRow(Head(names)) \o LiteralRows(Tail(names))

\* the dict literal of lines 80-113 as written, entry by entry
LiteralPairs ==
    << <<"throw_nan", FALSE>>, <<"pedantic", TRUE>>, <<"print_level", 2>>,
       <<"errordef", 1>> >> \o LiteralRows(NameOrder)

\* the keys of the dict the literal evaluates to: a key written twice is one key
LiteralKeys == {LiteralPairs[k][1] : k \in DOMAIN LiteralPairs}

\* the keys of Minuit.fitarg: value, fix_, limit_ and error_ of every parameter
FitArgKeys == UNION {{n, "fix_" \o n, "limit_" \o n, "error_" \o n} : n \in Names}

\* the caller left minuit_kwargs out, so that the parameter is bound to the
\* dict object made when the def statement of line 44 ran
ByDefault(c) == c.minuit_kwargs = << >>

\* the keys self.kwargs['minuit'] brings to line 115: those of a caller's
\* dict, or those a fit left in the default object
PassedKeys(c, shared) ==
    IF ByDefault(c) /\ shared /= << >> THEN FitArgKeys ELSE DOMAIN c.minuit_kwargs

\* the object self.kwargs['minuit'] is bound to
PassedKwargs(c, shared) == IF ByDefault(c) THEN shared ELSE c.minuit_kwargs

\* the content of the default object after self.kwargs['minuit'].update(...)
SharedAfterUpdate(shares, shared, updated) == IF shares THEN updated ELSE shared

\* __init__, lines 56-116: the instance built when the default object holds `shared`
NewInstance(c, shared) ==
    LET mk == DictUpdate(DefaultValues, PassedKwargs(c, shared))
    IN  [weights |-> Normalize(c.weights),
         kwargs_minuit |-> PassedKwargs(c, shared),
         minuit_kwargs |-> mk,
         model |-> UpdatedModel(InitialModel, Kw(mk)),
         misalignment |-> UpdatedMisalignment(InitialMisalignment, Kw(mk))]

\* the first instance of the process: the default object is still the {} of line 44
InitPSF ==
    \E c \in Constructions :
        LET new == NewInstance(c, << >>)
        IN  /\ weights = new.weights
            /\ kwargs_minuit = new.kwargs_minuit
            /\ minuit_kwargs = new.minuit_kwargs
            /\ model = new.model
            /\ misalignment = new.misalignment
            /\ minuit_keys = LiteralKeys \cup PassedKeys(c, << >>)
            /\ default_kwargs = << >>
            /\ shares_default = ByDefault(c)
            /\ stars = << >>
            /\ mstars = << >>
            /\ shapes = << >>
            /\ pc = "idle"
            /\ fitargs = NoFitArgs
            /\ minuit = NoMinuit
            /\ fit_return = "not called"
            /\ nfits = 0
            /\ nupdates = 0
            /\ last_call = NoCall
            /\ pre_fit = [model |-> InitialModel, misalignment |-> InitialMisalignment]

----------------------------------------------------------------------------
(* DECamWavefrontPSF: operations *)

Snapshot(op, a) ==
    [op |-> op, args |-> a, model |-> model, misalignment |-> misalignment]

\* what callers of update_psf_params pass: nothing, one named parameter, or all
UpdateArgs ==
    {AllNaN, DefaultValues}
      \cup {OnlyArg(n, v) : n \in Names, v \in {-1, 12}}

\* the calls made between and around fits
FewUpdateArgs == {AllNaN, OnlyArg("z05x", -1)}

\* a further DECamWavefrontPSF(...) in the same process, which takes the place
\* of the instance followed so far
Construct(c) ==
    /\ pc = "idle"
    /\ LET new == NewInstance(c, default_kwargs)
       IN  /\ weights' = new.weights
           /\ kwargs_minuit' = new.kwargs_minuit
           /\ minuit_kwargs' = new.minuit_kwargs
           /\ model' = new.model
           /\ misalignment' = new.misalignment
    /\ minuit_keys' = LiteralKeys \cup PassedKeys(c, default_kwargs)
    /\ shares_default' = ByDefault(c)
    /\ stars' = << >>
    /\ mstars' = << >>
    /\ shapes' = << >>
    /\ fitargs' = NoFitArgs
    /\ minuit' = NoMinuit
    /\ fit_return' = "not called"
    /\ last_call' = NoCall
    /\ pre_fit' = [model |-> InitialModel, misalignment |-> InitialMisalignment]
    /\ UNCHANGED <<pc, nfits, nupdates, default_kwargs>>
    /\ UNCHANGED <<loop_vars, knn_vars, gp_vars>>

\* update_psf_params called by the owner of the PSF, lines 155-185
UpdatePsfParams(a) ==
    /\ pc = "idle"
    /\ nupdates < MaxUpdates
    /\ model' = UpdatedModel(model, a)
    /\ misalignment' = UpdatedMisalignment(misalignment, a)
    /\ nupdates' = nupdates + 1
    /\ last_call' = Snapshot("update_psf_params", a)
    /\ UNCHANGED <<weights, minuit_kwargs, kwargs_minuit, stars, mstars, shapes,
                   pc, fitargs, minuit, fit_return, nfits, pre_fit,
                   default_kwargs, shares_default, minuit_keys>>
    /\ UNCHANGED <<loop_vars, knn_vars, gp_vars>>

\* chisq_threshold in the objective's units of 1e-5: 1e-5 and the default 0.1
Thresholds == {1, 10000}

\* the keyword arguments of the calls of fit: a tight threshold, the defaults,
\* and skip_fit=True
FitOptions ==
    {[chisq_threshold |-> thr, skip_fit |-> FALSE] : thr \in Thresholds}
      \cup {[chisq_threshold |-> 10000, skip_fit |-> TRUE]}

\* self._stars, line 142
MeasuredStars(sl) == [i \in 1..Len(sl) |-> ComparerFit(sl[i])]

\* self._shapes, line 143, with every star given the first star's descriptors
TargetsOfFirstStar(ms) == [i \in 1..Len(ms) |-> ms[1].params]

\* self._shapes, line 143
TargetShapes(ms) == [i \in 1..Len(ms) |-> ms[i].params]

\* fit's last lines with the update of line 151 left out
WithoutFinalInstall(m, mis, values) == [model |-> m, misalignment |-> mis]

\* self.update_psf_params(**self._minuit.values), line 151
FinalInstall(m, mis, values) ==
    [model |-> UpdatedModel(m, Kw(values)),
     misalignment |-> UpdatedMisalignment(mis, Kw(values))]

\* fit up to the construction of the search, lines 137-145
FitStart(sl, thr, maxit, skip) ==
    /\ pc = "idle"
    /\ nfits < MaxFits
    /\ stars' = sl
    /\ mstars' = MeasuredStars(sl)
    /\ shapes' = TargetShapes(MeasuredStars(sl))
    /\ fitargs' = [chisq_threshold |-> thr, max_iterations |-> maxit, skip_fit |-> skip]
    /\ minuit' = [NoMinuit EXCEPT !.values = minuit_kwargs]
    /\ pc' = "migrad"
    /\ fit_return' = "running"
    /\ pre_fit' = [model |-> model, misalignment |-> misalignment]
    /\ last_call' = Snapshot("fit", AllNaN)
    /\ UNCHANGED <<model, misalignment, weights, minuit_kwargs, kwargs_minuit,
                   nfits, nupdates, default_kwargs, shares_default, minuit_keys>>
    /\ UNCHANGED <<loop_vars, knn_vars, gp_vars>>

\* the objective drawn from the parameters installed before the call
ValueBeforeInstall(m, mis, a, ms, targets, w) == Objective(ms, targets, w, m, mis)

\* the value of _fit_func(a): the arguments are installed over (m, mis), lines
\* 199-207, then the stars are drawn and compared, lines 210-217
FitFuncValue(m, mis, a, ms, targets, w) ==
    Objective(ms, targets, w, UpdatedModel(m, a), UpdatedMisalignment(mis, a))

\* one objective evaluation requested by migrad: _fit_func, lines 187-217
FitFunc(a) ==
    /\ pc = "migrad"
    /\ minuit.ncalls < fitargs.max_iterations
    /\ a \in (IF minuit.ncalls = 0 THEN {minuit_kwargs} ELSE Probes(minuit_kwargs))
    /\ model' = UpdatedModel(model, a)
    /\ misalignment' = UpdatedMisalignment(misalignment, a)
    /\ LET f == FitFuncValue(model, misalignment, a, mstars, shapes, weights)
           better == minuit.ncalls = 0 \/ FracLess(f, minuit.fval)
       IN  minuit' = [minuit EXCEPT !.ncalls = @ + 1,
                                    !.prev_fval = minuit.last_fval,
                                    !.last_fval = f,
                                    !.values = IF better THEN a ELSE @,
                                    !.fval = IF better THEN f ELSE @]
    /\ last_call' = Snapshot("_fit_func", a)
    /\ UNCHANGED <<weights, minuit_kwargs, kwargs_minuit, stars, mstars, shapes,
                   pc, fitargs, fit_return, nfits, nupdates, pre_fit,
                   default_kwargs, shares_default, minuit_keys>>
    /\ UNCHANGED <<loop_vars, knn_vars, gp_vars>>

\* migrad returns, converged (valid) or with its call budget used up, and fit
\* runs to its end: lines 147-153
FitReturn(valid) ==
    /\ pc = "migrad"
    /\ minuit.ncalls >= 1
    /\ valid \/ minuit.ncalls >= fitargs.max_iterations
    /\ minuit' = [minuit EXCEPT !.valid = valid]
    /\ model' = FinalInstall(model, misalignment, minuit.values).model
    /\ misalignment' = FinalInstall(model, misalignment, minuit.values).misalignment
    /\ kwargs_minuit' = DictUpdate(kwargs_minuit, minuit.values)
    /\ default_kwargs' = SharedAfterUpdate(shares_default, default_kwargs, kwargs_minuit')
    /\ fit_return' = "None"
    /\ pc' = "idle"
    /\ nfits' = nfits + 1
    /\ last_call' = Snapshot("fit returned", AllNaN)
    /\ UNCHANGED <<weights, minuit_kwargs, stars, mstars, shapes, fitargs,
                   nupdates, pre_fit, shares_default, minuit_keys>>
    /\ UNCHANGED <<loop_vars, knn_vars, gp_vars>>

----------------------------------------------------------------------------
(* iterate(stars, interp): the ITERATIVE-mode loop of tests/test_gp_interp.py *)

LongerCap == 10 + 1         \* a loop that runs one iteration more
IterCap == 10               \* for iteration in range(10)

ChisqVals == {0, 1, 3}      \* a star's fit.chisq after mod.reflux
DofVals == {5, 20}          \* a star's fit.dof after mod.reflux

\* a star as the loop sees it: the step that last produced it, and its fit
IterStar(stage, round, c, d) == [stage |-> stage, round |-> round, chisq |-> c, dof |-> d]

IterInputs == SeqsUpTo({IterStar("initialize", 0, c, 20) : c \in {1, 3}}, 1, MaxStars)

RECURSIVE SumField(_, _)
SumField(s, f) == IF s = << >> THEN 0 ELSE Head(s)[f] + SumField(Tail(s), f)

NoCheck == [oldchisq |-> 0, chisq |-> 0, dof |-> 0, iteration |-> -1]

\* the test with oldchisq >= 0 in place of oldchisq > 0
ConvergedFromZero(oldchisq, chisq, dof) ==
    oldchisq >= 0 /\ 10 * Abs(oldchisq - chisq) < dof

\* oldchisq>0 and abs(oldchisq-chisq) < dof/10.0
Converged(oldchisq, chisq, dof) ==
    oldchisq > 0 /\ 10 * Abs(oldchisq - chisq) < dof

\* lines 278-290: the totals of the stars handed in, oldchisq = 0.
InitIter ==
    \E sl \in IterInputs :
        it = [pc |-> "refit", iteration |-> 0, stars |-> sl,
              chisq |-> SumField(sl, "chisq"), dof |-> SumField(sl, "dof"),
              oldchisq |-> 0, i |-> 0, solves |-> 0, solved_on |-> << >>,
              rounds |-> 0, checked |-> NoCheck]

\* stars = [mod.fit(s) for s in stars]
Refit ==
    /\ it.pc = "refit"
    /\ \E c \in {1, 3} :
        it' = [it EXCEPT !.pc = "solve",
                  !.stars = [k \in DOMAIN it.stars |->
                                IterStar("fit", it.iteration, c, it.stars[k].dof)]]
    /\ UNCHANGED <<psf_vars, knn_vars, gp_vars>>

\* interp.solve(stars)
Solve ==
    /\ it.pc = "solve"
    /\ it' = [it EXCEPT !.pc = "install", !.solves = @ + 1, !.solved_on = it.stars]
    /\ UNCHANGED <<psf_vars, knn_vars, gp_vars>>

\* totals that carry the earlier iterations' sums into this one
TotalsCarried(chisq, dof) == [chisq |-> chisq, dof |-> dof]

\* chisq = 0.; dof = 0, lines 298-299
TotalsReset(chisq, dof) == [chisq |-> 0, dof |-> 0]

\* chisq = 0.; dof = 0; stars = interp.interpolateList(stars)
Install ==
    /\ it.pc = "install"
    /\ it' = [it EXCEPT !.pc = "reflux", !.i = 1,
                  !.chisq = TotalsReset(it.chisq, it.dof).chisq,
                  !.dof = TotalsReset(it.chisq, it.dof).dof,
                  !.stars = [k \in DOMAIN it.stars |->
                                IterStar("interpolate", it.iteration, 0, 0)]]
    /\ UNCHANGED <<psf_vars, knn_vars, gp_vars>>

\* one turn of `for i, s in enumerate(stars)`: reflux, add to the totals, store
Reflux(c, d) ==
    /\ it.pc = "reflux"
    /\ it.i <= Len(it.stars)
    /\ it' = [it EXCEPT !.stars[it.i] = IterStar("reflux", it.iteration, c, d),
                  !.chisq = @ + c, !.dof = @ + d, !.i = @ + 1,
                  !.pc = IF it.i = Len(it.stars) THEN "check" ELSE "reflux"]
    /\ UNCHANGED <<psf_vars, knn_vars, gp_vars>>

\* the test that ends an iteration, and the loop header's next value;
\* rounds counts the iterations completed, checked records what the test saw
Check ==
    /\ it.pc = "check"
    /\ LET seen == [oldchisq |-> it.oldchisq, chisq |-> it.chisq, dof |-> it.dof,
                    iteration |-> it.iteration]
       IN  IF Converged(it.oldchisq, it.chisq, it.dof)
           THEN it' = [it EXCEPT !.pc = "done", !.checked = seen, !.rounds = @ + 1]
           ELSE it' = [it EXCEPT !.oldchisq = it.chisq, !.checked = seen,
                           !.rounds = @ + 1, !.solves = 0,
                           !.iteration = IF it.iteration + 1 < IterCap THEN @ + 1 ELSE @,
                           !.pc = IF it.iteration + 1 < IterCap THEN "refit" ELSE "done"]
    /\ UNCHANGED <<psf_vars, knn_vars, gp_vars>>

----------------------------------------------------------------------------
(* kNNInterp, as tests/test_knn_interp.py uses it *)

MaxNeighbors == 2           \* largest n_neighbors an interpolant is built with
NParams == 2                \* length of a star's parameter vector
Coords == {0, 1}            \* values of focal_x, focal_y
ParamVals == {0, 2}         \* values of a parameter (even, so that a mean of two is exact)

ParamIndex == 0..(NParams - 1)

\* parameter vectors whose entries differ, so that a target subset shows
ParamVectors == { p \in [ParamIndex -> ParamVals] : p[0] /= p[1] }

KnnStars ==
    [focal_x : Coords, focal_y : Coords, fit : [params : ParamVectors]]

KnnMinSamples == 2          \* fewest training stars solve accepts

KnnStarLists == SeqsUpTo(KnnStars, KnnMinSamples, MaxStars)

AttrInterps == { <<"focal_x", "focal_y">>, <<"focal_y">> }
AttrTargets == { [k \in 1..NParams |-> k - 1], <<1>> }     \* range(NParams), [1]

NoneFit == [params |-> << >>]       \* star.fit = None
NoStar == [focal_x |-> 0, focal_y |-> 0, fit |-> NoneFit]

\* a row of the attribute matrix: the star's interpolation attributes
StarToX(star, attr_interp) == [a \in DOMAIN attr_interp |-> star[attr_interp[a]]]

\* a row of the target matrix: the selected entries of the star's parameters
StarToY(star, attr_target) == [t \in DOMAIN attr_target |-> star.fit.params[attr_target[t]]]

\* squared Euclidean distance in attribute space
Dist2(p, q) == SumSeq([a \in DOMAIN p |-> (p[a] - q[a]) * (p[a] - q[a])])

\* the sets of k training rows that are farthest from the query q
FarthestSets(X, q, k) ==
    { S \in SUBSET (DOMAIN X) :
        /\ Cardinality(S) = k
        /\ \A j \in S : \A m \in (DOMAIN X) \ S : Dist2(X[j], q) >= Dist2(X[m], q) }

\* the sets of k training rows that are nearest to the query q
NearestSets(X, q, k) ==
    { S \in SUBSET (DOMAIN X) :
        /\ Cardinality(S) = k
        /\ \A j \in S : \A m \in (DOMAIN X) \ S : Dist2(X[j], q) <= Dist2(X[m], q) }

RECURSIVE SumOver(_, _, _)
SumOver(S, y, t) ==
    IF S = {} THEN 0
    ELSE LET j == CHOOSE j \in S : TRUE IN y[j][t] + SumOver(S \ {j}, y, t)

\* the mean of the targets of the rows in S
MeanTarget(S, y, ntarget) == [t \in 1..ntarget |-> SumOver(S, y, t) \div Cardinality(S)]

\* ---- write / read ----
SinkNames == {"knn", "interp"}     \* the sub-tables test_disk and check_gp write

NoTable == [written |-> FALSE]

NotRead == [n_neighbors |-> 0, built |-> FALSE, trained |-> FALSE,
            attr_interp |-> << >>, attr_target |-> << >>, X |-> << >>, y |-> << >>]

\* a matrix as an array column of a table row: its shape and its entries, row by row
Flatten(M, ncols) ==
    [shape |-> <<Len(M), ncols>>,
     data |-> [k \in 1..(Len(M) * ncols) |-> M[((k - 1) \div ncols) + 1][((k - 1) % ncols) + 1]]]

\* the array column read back column by column
UnflattenByColumn(col) ==
    [i \in 1..col.shape[1] |-> [j \in 1..col.shape[2] |-> col.data[(j - 1) * col.shape[1] + i]]]

\* the array column read back into a matrix
Unflatten(col) ==
    [i \in 1..col.shape[1] |-> [j \in 1..col.shape[2] |-> col.data[(i - 1) * col.shape[2] + j]]]

\* the table kNNInterp.write makes of an interpolant
KnnTable(interp) ==
    [written |-> TRUE,
     n_neighbors |-> interp.n_neighbors,
     attr_interp |-> interp.attr_interp,
     attr_target |-> interp.attr_target,
     X |-> Flatten(interp.X, Len(interp.attr_interp)),
     Y |-> Flatten(interp.y, Len(interp.attr_target))]

\* the interpolant kNNInterp.read makes of a table: the stored matrices, no solve
KnnFromTable(table) ==
    [n_neighbors |-> table.n_neighbors, built |-> TRUE, trained |-> TRUE,
     attr_interp |-> table.attr_interp, attr_target |-> table.attr_target,
     X |-> Unflatten(table.X), y |-> Unflatten(table.Y)]

InitKnn ==
    /\ \E k \in 1..MaxNeighbors :
        knn = [n_neighbors |-> k, built |-> FALSE, trained |-> FALSE,
               attr_interp |-> << >>, attr_target |-> << >>, X |-> << >>, y |-> << >>]
    /\ star_list = << >>
    /\ predicted = [query |-> 0, star |-> NoStar]
    /\ sink = [n \in SinkNames |-> NoTable]
    /\ knn_read = NotRead

\* knn.build(attr_interp, attr_target)
Build(ai, at) ==
    /\ ~knn.built
    /\ knn' = [knn EXCEPT !.built = TRUE, !.attr_interp = ai, !.attr_target = at]
    /\ UNCHANGED <<star_list, predicted>>
    /\ UNCHANGED <<psf_vars, loop_vars, disk_vars, gp_vars>>

\* knn.initialize(star_list): stores the matrices and trains the index
Initialize(sl) ==
    /\ knn.built
    /\ ~knn.trained
    /\ Len(sl) >= KnnMinSamples
    /\ Len(sl) >= knn.n_neighbors
    /\ star_list' = sl
    /\ knn' = [knn EXCEPT !.trained = TRUE,
                          !.X = [j \in DOMAIN sl |-> StarToX(sl[j], knn.attr_interp)],
                          !.y = [j \in DOMAIN sl |-> StarToY(sl[j], knn.attr_target)]]
    /\ UNCHANGED predicted
    /\ UNCHANGED <<psf_vars, loop_vars, disk_vars, gp_vars>>

\* a returned star that keeps only the attributes the interpolant was built on
OnlyInterpAttrs(star, attr_interp, params) ==
    LET used == {attr_interp[a] : a \in DOMAIN attr_interp}
    IN  [focal_x |-> IF "focal_x" \in used THEN star.focal_x ELSE 0,
         focal_y |-> IF "focal_y" \in used THEN star.focal_y ELSE 0,
         fit |-> [params |-> params]]

\* the star interpolate returns: the input's data with a new fit, whether or
\* not the input had one
InterpolatedStar(star, attr_interp, params) == [star EXCEPT !.fit = [params |-> params]]

\* knn.interpolate(star_list[q]): a new star with the predicted parameters
Interpolate(q) ==
    /\ knn.trained
    /\ q \in DOMAIN star_list
    /\ \E S \in NearestSets(knn.X, StarToX(star_list[q], knn.attr_interp), knn.n_neighbors) :
        predicted' = [query |-> q,
                      star |-> InterpolatedStar(star_list[q], knn.attr_interp,
                                    MeanTarget(S, knn.y, Len(knn.attr_target)))]
    /\ UNCHANGED <<knn, star_list>>
    /\ UNCHANGED <<psf_vars, loop_vars, disk_vars, gp_vars>>

\* knn.write(f, name): create or replace the sub-table
Write(name) ==
    /\ knn.trained
    /\ sink' = [sink EXCEPT ![name] = KnnTable(knn)]
    /\ UNCHANGED <<knn, star_list, predicted, knn_read>>
    /\ UNCHANGED <<psf_vars, loop_vars, gp_vars>>

\* knn2 = kNNInterp.read(f, name)
Read(name) ==
    /\ sink[name].written
    /\ knn_read' = KnnFromTable(sink[name])
    /\ UNCHANGED <<knn, star_list, predicted, sink>>
    /\ UNCHANGED <<psf_vars, loop_vars, gp_vars>>

\* star_predict.fit = None on a star of the list, after training
RemoveFit(q) ==
    /\ knn.trained
    /\ q \in DOMAIN star_list
    /\ star_list[q].fit /= NoneFit
    /\ star_list' = [star_list EXCEPT ![q].fit = NoneFit]
    /\ UNCHANGED <<knn, predicted>>
    /\ UNCHANGED <<psf_vars, loop_vars, disk_vars, gp_vars>>

----------------------------------------------------------------------------
(* GPInterp, as check_gp drives it.  Covariances, means and regression      *)
(* weights are integer stand-ins for the floating-point quantities: each is *)
(* a fixed function of the same inputs as the quantity it stands for.       *)

GpKernels == {"RBF", "Explicit"}    \* "1*RBF(...)", "ExplicitKernel(...)"

NpcaChoices == {0, 1}               \* no PCA, PCA keeping fewer components than NParams

\* kernel.theta of a kernel built from its specification: amplitude and length
\* scale for 1*RBF, nothing for the explicit covariance function
RequestedTheta(kernel) == IF kernel = "RBF" THEN <<1, 2>> ELSE << >>

ThetaBounds == 1..2                 \* the declared bounds of a hyperparameter

\* the hyperparameters a fit may end with: any point within the bounds when an
\* optimizer searches, the kernel's own otherwise
FittedThetas(kernel, optimizer) ==
    IF optimizer THEN [DOMAIN RequestedTheta(kernel) -> ThetaBounds]
    ELSE {RequestedTheta(kernel)}

\* a covariance falling with the squared separation, wider for a larger scale
Cov(scale, d2) == IF d2 >= scale THEN 0 ELSE scale - d2

\* kernel(X): the covariance matrix of the rows of X
KernelMatrix(kernel, theta, X) ==
    [i \in DOMAIN X |-> [j \in DOMAIN X |->
        IF kernel = "RBF" THEN theta[1] * Cov(theta[2], Dist2(X[i], X[j]))
        ELSE Cov(2, Dist2(X[i], X[j]))]]

\* the training coordinates (u, v) of a star list
GpCoords(sl) == [j \in DOMAIN sl |-> <<sl[j].focal_x, sl[j].focal_y>>]

\* the training targets: the parameter vectors, reduced to npca components
GpTargets(sl, npca) ==
    [j \in DOMAIN sl |->
        [d \in 1..(IF npca > 0 THEN npca ELSE NParams) |-> sl[j].fit.params[d - 1]]]

\* y_train_mean: the mean of each target dimension
TargetMean(Y) ==
    [d \in DOMAIN Y[1] |-> SumSeq([j \in DOMAIN Y |-> Y[j][d]]) \div Len(Y)]

\* alpha_: the regression weights of the mean-subtracted targets
Regress(K, Y, mean) ==
    [i \in DOMAIN K |-> [d \in DOMAIN mean |->
        SumSeq([j \in DOMAIN K |-> K[i][j] * (Y[j][d] - mean[d])])]]

\* GPInterp(kernel, optimizer, npca)
NewGp(kernel, optimizer, npca) ==
    [kernel |-> kernel, optimizer |-> optimizer, npca |-> npca,
     theta |-> RequestedTheta(kernel), trained |-> FALSE, theta_fit |-> << >>,
     X_train |-> << >>, y_train |-> << >>, y_train_mean |-> << >>, alpha |-> << >>]

NoGp == [NewGp("RBF", FALSE, 0) EXCEPT !.theta = << >>]

\* gp.fit(X, Y) ending with hyperparameters theta_fit
GpFit(interp, theta_fit, X, Y) ==
    [interp EXCEPT !.trained = TRUE, !.theta_fit = theta_fit,
                   !.X_train = X, !.y_train = Y,
                   !.y_train_mean = TargetMean(Y),
                   !.alpha = Regress(KernelMatrix(interp.kernel, theta_fit, X), Y, TargetMean(Y))]

\* the table GPInterp.write makes of an interpolant
GpTable(interp) ==
    [written |-> TRUE,
     kernel |-> interp.kernel, optimizer |-> interp.optimizer, npca |-> interp.npca,
     INIT_THETA |-> interp.theta,
     FIT_THETA |-> interp.theta_fit,
     X |-> Flatten(interp.X_train, 2),
     Y |-> Flatten(interp.y_train, Len(interp.y_train_mean))]

\* a reader that fits the stored data at the kernel's requested hyperparameters
GpFromTableAtRequested(table) ==
    GpFit(NewGp(table.kernel, table.optimizer, table.npca), table.INIT_THETA,
          Unflatten(table.X), Unflatten(table.Y))

\* the interpolant GPInterp.read makes of a table: the stored data fitted at
\* the stored optimized hyperparameters with no search, the requested ones
\* put back on the kernel
GpFromTable(table) ==
    [GpFit(NewGp(table.kernel, table.optimizer, table.npca), table.FIT_THETA,
           Unflatten(table.X), Unflatten(table.Y))
        EXCEPT !.theta = table.INIT_THETA]

IdleGp ==
    /\ gp = NoGp
    /\ gp_read = NoGp

\* interp = piff.GPInterp(kernel=kernel, optimizer=optimizer, npca=npca); an
\* optimizer with the explicit kernel is refused at construction
InitGp ==
    /\ \E kernel \in GpKernels, optimizer \in BOOLEAN, npca \in NpcaChoices :
        /\ kernel = "Explicit" => ~optimizer
        /\ gp = NewGp(kernel, optimizer, npca)
    /\ gp_read = NoGp

\* interp.initialize(stars) and the solves of iterate, of which the last one
\* leaves the trained state: one fit of the star list
GpSolve(sl, theta_fit) ==
    /\ gp.theta /= << >> \/ gp.kernel = "Explicit"
    /\ ~gp.trained
    /\ theta_fit \in FittedThetas(gp.kernel, gp.optimizer)
    /\ gp' = GpFit(gp, theta_fit, GpCoords(sl), GpTargets(sl, gp.npca))
    /\ UNCHANGED <<gp_read, knn_vars>>
    /\ UNCHANGED <<psf_vars, loop_vars>>

\* interp.write(f, 'interp')
GpWrite ==
    /\ gp.trained
    /\ sink' = [sink EXCEPT !["interp"] = GpTable(gp)]
    /\ UNCHANGED <<gp, gp_read, knn, star_list, predicted, knn_read>>
    /\ UNCHANGED <<psf_vars, loop_vars>>

\* interp2 = piff.GPInterp.read(f, 'interp')
GpRead ==
    /\ sink["interp"].written
    /\ gp_read' = GpFromTable(sink["interp"])
    /\ UNCHANGED <<gp, knn_vars>>
    /\ UNCHANGED <<psf_vars, loop_vars>>

----------------------------------------------------------------------------
(* Specifications *)

IdlePSF ==
    /\ minuit_keys = LiteralKeys
    /\ default_kwargs = << >>
    /\ shares_default = FALSE
    /\ weights = Normalize(RawWeights)
    /\ kwargs_minuit = << >>
    /\ minuit_kwargs = DefaultValues
    /\ model = InitialModel
    /\ misalignment = InitialMisalignment
    /\ stars = << >> /\ mstars = << >> /\ shapes = << >>
    /\ pc = "idle"
    /\ fitargs = NoFitArgs
    /\ minuit = NoMinuit
    /\ fit_return = "not called"
    /\ nfits = 0 /\ nupdates = 0
    /\ last_call = NoCall
    /\ pre_fit = [model |-> InitialModel, misalignment |-> InitialMisalignment]

IdleIter ==
    it = [pc |-> "done", iteration |-> 0, stars |-> << >>, chisq |-> 0, dof |-> 0,
          oldchisq |-> 0, i |-> 0, solves |-> 0, solved_on |-> << >>,
          rounds |-> 0, checked |-> NoCheck]

IdleKnn ==
    /\ knn = [n_neighbors |-> 1, built |-> FALSE, trained |-> FALSE,
              attr_interp |-> << >>, attr_target |-> << >>, X |-> << >>, y |-> << >>]
    /\ star_list = << >>
    /\ predicted = [query |-> 0, star |-> NoStar]
    /\ sink = [n \in SinkNames |-> NoTable]
    /\ knn_read = NotRead

\* the joint-mode PSF
InitJoint == InitPSF /\ IdleIter /\ IdleKnn /\ IdleGp

NextJoint ==
    \/ \E a \in FewUpdateArgs : UpdatePsfParams(a)
    \/ \E sl \in StarLists, opt \in FitOptions, maxit \in 1..MaxCalls :
          FitStart(sl, opt.chisq_threshold, maxit, opt.skip_fit)
    \/ \E a \in Probes(minuit_kwargs) : FitFunc(a)
    \/ \E valid \in BOOLEAN : FitReturn(valid)

SpecJoint == InitJoint /\ [][NextJoint]_vars

\* instances built one after the other in one process, each fitted or not
NextInstances ==
    \/ \E c \in Constructions : Construct(c)
    \/ \E sl \in StarLists, maxit \in 1..MaxCalls : FitStart(sl, 10000, maxit, FALSE)
    \/ \E a \in Probes(minuit_kwargs) : FitFunc(a)
    \/ \E valid \in BOOLEAN : FitReturn(valid)

SpecInstances == InitJoint /\ [][NextInstances]_vars

\* the parameter table under direct updates only
NextParams == \E a \in UpdateArgs : UpdatePsfParams(a)

SpecParams == InitJoint /\ [][NextParams]_vars

\* the iterative loop
InitLoop == IdlePSF /\ InitIter /\ IdleKnn /\ IdleGp

NextLoop ==
    \/ Refit
    \/ Solve
    \/ Install
    \/ \E c \in ChisqVals, d \in DofVals : Reflux(c, d)
    \/ Check

SpecLoop == InitLoop /\ [][NextLoop]_vars

\* the loop's steps are straight-line code: a step that can run does run
FairLoop == SpecLoop /\ WF_vars(NextLoop)

\* the nearest-neighbour interpolant
InitNeighbor == IdlePSF /\ IdleIter /\ InitKnn /\ IdleGp

NextNeighbor ==
    \/ \E ai \in AttrInterps, at \in AttrTargets : Build(ai, at)
    \/ \E sl \in KnnStarLists : Initialize(sl)
    \/ \E q \in 1..MaxStars : Interpolate(q)
    \/ RemoveFit(1)                 \* star_list_predict[0]
    \/ Write("knn")
    \/ Read("knn")

SpecNeighbor == InitNeighbor /\ [][NextNeighbor]_vars

\* the regression interpolant
AllThetas == UNION { FittedThetas(kernel, TRUE) : kernel \in GpKernels }

InitRegression == IdlePSF /\ IdleIter /\ IdleKnn /\ InitGp

NextRegression ==
    \/ \E sl \in KnnStarLists, theta_fit \in AllThetas : GpSolve(sl, theta_fit)
    \/ GpWrite
    \/ GpRead

SpecRegression == InitRegression /\ [][NextRegression]_vars

----------------------------------------------------------------------------
(* Properties: partial update *)

OnlySupplied(a, n) == a[n] /= NaN /\ \A m \in Names \ {n} : a[m] = NaN

Before == Installed(last_call.model, last_call.misalignment)
Now == Installed(model, misalignment)

\* C1: a call of update_psf_params that supplies a value for one named
\* parameter only installs that value under that name and leaves the other 26
\* installed values (r0, g1, g2 and the misalignment coefficients) as they were.
C1_PartialUpdate ==
    last_call.op = "update_psf_params" =>
        \A n \in Names :
            OnlySupplied(last_call.args, n) =>
                /\ Now[n] = last_call.args[n]
                /\ \A m \in Names \ {n} : Now[m] = Before[m]

\* a one-parameter update of a coefficient has changed it, while a scalar and
\* another coefficient hold values an earlier call or the construction installed
C1_Witness ==
    /\ last_call.op = "update_psf_params"
    /\ OnlySupplied(last_call.args, "z07x")
    /\ Before["z07x"] /= Now["z07x"]
    /\ Now["r0"] = 12
    /\ \E m \in Names \ {"r0", "g1", "g2", "z07x"} : Before[m] /= 0 /\ Now[m] = Before[m]

----------------------------------------------------------------------------
(* Properties: the iterative loop *)

\* C2: the loop ends, and it ends after at most 10 iterations, whatever the
\* chi-square and dof totals of the iterations are.
C2_Terminates == [](it.rounds <= 10) /\ <>(it.pc = "done")

\* the loop has run all 10 iterations without the convergence test passing
C2_Witness ==
    /\ it.pc = "done"
    /\ it.rounds = 10
    /\ ~(it.checked.oldchisq > 0
         /\ 10 * Abs(it.checked.oldchisq - it.checked.chisq) < it.checked.dof)

\* what the last test of an iteration saw satisfies the convergence condition
SawConvergence ==
    /\ it.checked.oldchisq > 0
    /\ 10 * Abs(it.checked.oldchisq - it.checked.chisq) < it.checked.dof

\* C3: the loop stops at the end of an iteration exactly when the previous
\* total is > 0 and |previous - current| < dof/10, or the iteration is the
\* 10th; the totals tested are the sums over the stars of that iteration; the
\* previous total is 0 before the first test, so the first iteration never
\* stops the loop, and a test that does not pass stores the iteration's total
\* as the previous one.
C3_StopRule ==
    /\ it.rounds = 0 => it.oldchisq = 0
    /\ it.rounds = 1 => it.pc /= "done"
    /\ it.pc = "check" =>
          /\ it.chisq = SumField(it.stars, "chisq")
          /\ it.dof = SumField(it.stars, "dof")
          /\ \A k \in DOMAIN it.stars :
                it.stars[k].stage = "reflux" /\ it.stars[k].round = it.iteration
    /\ it.rounds > 0 =>
          /\ (it.pc = "done") <=> (SawConvergence \/ it.checked.iteration = 9)
          /\ it.rounds = it.checked.iteration + 1
          /\ ~SawConvergence => it.oldchisq = it.checked.chisq
          /\ SawConvergence => it.oldchisq = it.checked.oldchisq

\* the loop has stopped by convergence before the 10th iteration, on totals
\* that differ from the previous iteration's
C3_Witness ==
    /\ it.pc = "done"
    /\ it.rounds \in 2..9
    /\ SawConvergence
    /\ it.checked.chisq /= it.checked.oldchisq

----------------------------------------------------------------------------
(* Properties: the joint fit *)

Permuted(sl, p) == [i \in DOMAIN sl |-> sl[p[i]]]

\* the objective at the installed parameters, had fit been given the list sl
ObjectiveFor(sl) ==
    Objective(MeasuredStars(sl), TargetShapes(MeasuredStars(sl)), weights,
              model, misalignment)

\* C4: the value an objective evaluation returns is the same for every
\* permutation of the star list given to fit (the targets being computed from
\* the permuted list, as fit does).
C4_PermutationInvariant ==
    last_call.op = "_fit_func" =>
        \A p \in Permutations(DOMAIN stars) :
            FracEq(ObjectiveFor(Permuted(stars, p)), minuit.last_fval)

\* an evaluation over two different stars whose residuals differ
C4_Witness ==
    /\ last_call.op = "_fit_func"
    /\ Len(stars) = 2
    /\ stars[1] /= stars[2]
    /\ ObjectiveFor(<<stars[1]>>).chi2 /= ObjectiveFor(<<stars[2]>>).chi2
    /\ ObjectiveFor(<<stars[1]>>).chi2 > 0
    /\ ObjectiveFor(<<stars[2]>>).chi2 > 0

\* C5: when fit has returned, the installed r0, g1, g2 and misalignment
\* coefficients are the search's final values, whether the search converged
\* or used up its call budget; the values installed before fit are not put back.
C5_FinalValuesInstalled ==
    last_call.op = "fit returned" => Now = minuit.values

\* fit has returned from a search that used up its budget unconverged, and
\* what is installed differs from what was installed before fit and from the
\* arguments of the last objective evaluation
C5_Witness ==
    /\ last_call.op = "fit returned"
    /\ ~minuit.valid
    /\ minuit.ncalls = fitargs.max_iterations
    /\ Now /= Installed(pre_fit.model, pre_fit.misalignment)
    /\ Now /= Before

\* C6: a fit whose search used up its call budget without converging reports
\* an OptimizerNonConvergence outcome to its caller.
C6_NonConvergenceReported ==
    (last_call.op = "fit returned" /\ ~minuit.valid) =>
        fit_return = "OptimizerNonConvergence"

\* C7: with skip_fit=True the search is not run: no objective evaluation
\* takes place and the installed parameters stay those installed before fit.
C7_SkipFitRunsNoSearch ==
    (pc = "migrad" \/ last_call.op = "fit returned") /\ fitargs.skip_fit =>
        /\ minuit.ncalls = 0
        /\ Now = Installed(pre_fit.model, pre_fit.misalignment)

\* |chi2/dof now - chi2/dof before| < chisq_threshold, the threshold in 1e-5
BelowThreshold(prev, last, thr) ==
    Abs(last.chi2 * prev.dof - prev.chi2 * last.dof) < thr * prev.dof * last.dof

\* C8: once the objective has changed by less than chisq_threshold between
\* two successive evaluations, the search makes no further evaluation.
C8_ThresholdStopsSearch ==
    [][ ( /\ pc = "migrad"
          /\ minuit.ncalls >= 2
          /\ BelowThreshold(minuit.prev_fval, minuit.last_fval, fitargs.chisq_threshold) )
        => minuit'.ncalls = minuit.ncalls ]_vars

----------------------------------------------------------------------------
(* Properties: the nearest-neighbour interpolant *)

FullTarget == [k \in 1..NParams |-> k - 1]

\* the query star of the last interpolate, and the prediction made for it
QueryStar == star_list[predicted.query]
Prediction == predicted.star.fit.params

\* no star of the list has had its fit removed since training
AllFitsKept == \A j \in DOMAIN star_list : star_list[j].fit /= NoneFit

\* no other training star with the query's interpolation attributes stores
\* other target values
NoConflictingTwin ==
    \A j \in DOMAIN knn.X :
        knn.X[j] = knn.X[predicted.query] => knn.y[j] = knn.y[predicted.query]

\* C9 as stated: with n_neighbors=1 and the full parameter vector as target,
\* interpolate at any training star predicts that star's stored parameters.
C9_ExactRecoveryAlways ==
    (predicted.query > 0 /\ knn.n_neighbors = 1 /\ knn.attr_target = FullTarget
        /\ AllFitsKept) =>
        /\ Len(Prediction) = NParams
        /\ \A k \in 1..NParams : Prediction[k] = QueryStar.fit.params[k - 1]

\* C9 (amended): the same, for a training star that shares its interpolation
\* attributes with no training star storing a different vector.
C9_ExactRecovery ==
    (predicted.query > 0 /\ knn.n_neighbors = 1 /\ knn.attr_target = FullTarget
        /\ AllFitsKept /\ NoConflictingTwin) =>
        /\ Len(Prediction) = NParams
        /\ \A k \in 1..NParams : Prediction[k] = QueryStar.fit.params[k - 1]

\* the second of two training stars at different positions, the first storing
\* a different vector, has been interpolated with n_neighbors=1
C9_Witness ==
    /\ predicted.query = 2
    /\ knn.n_neighbors = 1
    /\ knn.attr_target = FullTarget
    /\ knn.attr_interp = <<"focal_x", "focal_y">>
    /\ knn.X[1] /= knn.X[2]
    /\ knn.y[1] /= knn.y[2]

\* the predictions an interpolant with the same attributes and neighbours but
\* the full target makes for the query star
FullPredictions ==
    LET yfull == [j \in DOMAIN star_list |-> StarToY(star_list[j], FullTarget)]
    IN  { MeanTarget(S, yfull, NParams) :
            S \in NearestSets(knn.X, knn.X[predicted.query], knn.n_neighbors) }

\* C10 as stated: with target subset [1] and n_neighbors=1 the prediction at a
\* training star has one entry, equal to entry 1 of that star's stored
\* vector and to entry 1 of the full-vector prediction at the same point.
C10_SubsetTargetAlways ==
    (predicted.query > 0 /\ knn.n_neighbors = 1 /\ knn.attr_target = <<1>>
        /\ AllFitsKept) =>
        /\ Len(Prediction) = 1
        /\ Prediction[1] = QueryStar.fit.params[1]
        /\ \A full \in FullPredictions : Prediction[1] = full[2]

\* C10 (amended): the same, for a training star that shares its interpolation
\* attributes with no training star storing a different entry 1.
C10_SubsetTarget ==
    (predicted.query > 0 /\ knn.n_neighbors = 1 /\ knn.attr_target = <<1>>
        /\ AllFitsKept /\ NoConflictingTwin) =>
        /\ Len(Prediction) = 1
        /\ Prediction[1] = QueryStar.fit.params[1]
        /\ \A full \in FullPredictions : Prediction[1] = full[2]

\* an interpolant over focal_y with target [1] has predicted at a training star
\* whose entries 0 and 1 differ, next to a star elsewhere with another entry 1
C10_Witness ==
    /\ predicted.query = 1
    /\ knn.n_neighbors = 1
    /\ knn.attr_target = <<1>>
    /\ knn.attr_interp = <<"focal_y">>
    /\ Len(star_list) = 2
    /\ knn.X[1] /= knn.X[2]
    /\ knn.y[1] /= knn.y[2]
    /\ QueryStar.fit.params[0] /= QueryStar.fit.params[1]

C13_WitnessPlain ==
    /\ gp_read.trained
    /\ ~gp.optimizer
    /\ gp.npca = 0
    /\ gp.kernel = "Explicit"

\* C14: the weights have the length supplied and sum to 1 (the default
\* [0.5, 1, 1] becomes [0.2, 0.4, 0.4]) from construction on, and no step of
\* fit, of the objective or of update_psf_params changes them.
C14_WeightsNormalized ==
    /\ [](/\ Len(weights) = NDesc
          /\ SumSeq(weights) = WUnit
          /\ weights \in {<<2, 4, 4>>, <<2, 2, 6>>}
          /\ Normalize(RawWeights) = <<2, 4, 4>>)
    /\ [][weights' = weights]_vars

\* a fit with two objective evaluations has returned and update_psf_params
\* has been called, on a PSF built with the default weights
C14_Witness ==
    /\ weights = <<2, 4, 4>>
    /\ weights[1] < weights[2]
    /\ nfits >= 1
    /\ minuit.ncalls >= 2
    /\ nupdates >= 1
    /\ pc = "idle"

\* C15: while a search runs, self._stars and self._shapes are the measurements
\* of the observed stars given to fit, star by star; they are assigned on
\* entry to fit, before the first objective evaluation, and by no other step:
\* no evaluation and no update of the parameters changes them.
C15_TargetsFixed ==
    /\ [](pc = "migrad" =>
            /\ Len(shapes) = Len(stars)
            /\ Len(mstars) = Len(stars)
            /\ \A i \in DOMAIN stars :
                  /\ mstars[i].data = stars[i]
                  /\ shapes[i] = stars[i].image)
    /\ [][(shapes' /= shapes \/ mstars' /= mstars) =>
             (pc = "idle" /\ pc' = "migrad" /\ minuit'.ncalls = 0)]_vars

\* a search over two stars with different descriptors has evaluated the
\* objective twice and moved the installed parameters
C15_Witness ==
    /\ pc = "migrad"
    /\ minuit.ncalls >= 2
    /\ Len(stars) = 2
    /\ shapes[1] /= shapes[2]
    /\ model /= pre_fit.model

\* star k of the loop's list is the result of the given step of the current
\* iteration
ThisRound(k, stage) ==
    it.stars[k].stage = stage /\ it.stars[k].round = it.iteration

\* the stars refluxed so far in the current iteration
Refluxed == SubSeq(it.stars, 1, it.i - 1)

\* C16: in every iteration solve runs once, after every star has been refit and
\* on the list of those refit stars; every star is interpolated before the
\* first one is refluxed; and the totals the test sees are sums over this
\* iteration's refluxed stars alone.
C16_StepOrder ==
    /\ it.pc = "solve" =>
          it.solves = 0 /\ \A k \in DOMAIN it.stars : ThisRound(k, "fit")
    /\ it.pc = "install" =>
          /\ it.solves = 1
          /\ it.solved_on = it.stars
          /\ \A k \in DOMAIN it.stars : ThisRound(k, "fit")
    /\ it.pc \in {"install", "reflux", "check"} =>
          /\ Len(it.solved_on) = Len(it.stars)
          /\ \A k \in DOMAIN it.solved_on :
                it.solved_on[k].stage = "fit" /\ it.solved_on[k].round = it.iteration
    /\ it.pc = "reflux" =>
          /\ it.solves = 1
          /\ \A k \in DOMAIN it.stars :
                IF k < it.i THEN ThisRound(k, "reflux") ELSE ThisRound(k, "interpolate")
          /\ it.chisq = SumField(Refluxed, "chisq")
          /\ it.dof = SumField(Refluxed, "dof")
    /\ it.pc = "check" =>
          /\ it.solves = 1
          /\ \A k \in DOMAIN it.stars : ThisRound(k, "reflux")
          /\ it.chisq = SumField(it.stars, "chisq")
          /\ it.dof = SumField(it.stars, "dof")

\* the second iteration over two stars has reached its test with totals that
\* are not zero, after a first iteration whose totals were not zero
C16_Witness ==
    /\ it.pc = "check"
    /\ it.iteration = 1
    /\ Len(it.stars) = 2
    /\ it.oldchisq > 0
    /\ it.chisq > 0
    /\ it.dof > 0

\* C17: the value of an objective evaluation whose 27 arguments are all
\* numbers is the objective of the stored stars, targets and weights at those
\* arguments, whatever parameters were installed before the call.
C17_ValueFromArguments ==
    (last_call.op = "_fit_func" /\ \A n \in Names : last_call.args[n] /= NaN) =>
        LET a == last_call.args
        IN  /\ minuit.last_fval =
                  Objective(mstars, shapes, weights,
                            [r0 |-> a["r0"], g1 |-> a["g1"], g2 |-> a["g2"]], ArgTable(a))
            /\ model = [r0 |-> a["r0"], g1 |-> a["g1"], g2 |-> a["g2"]]
            /\ misalignment = ArgTable(a)

\* an evaluation has run from installed parameters that differ from its
\* arguments in r0 and in the table, and its value is not that of the
\* evaluation before it
C17_Witness ==
    /\ last_call.op = "_fit_func"
    /\ \A n \in Names : last_call.args[n] /= NaN
    /\ last_call.model.r0 /= last_call.args["r0"]
    /\ last_call.misalignment /= ArgTable(last_call.args)
    /\ minuit.ncalls >= 2
    /\ ~FracEq(minuit.last_fval, minuit.prev_fval)

\* C18: an instance just built with minuit_kwargs left at its default has
\* the declared initial values installed and configured (r0 = 0.1, g1 = g2 =
\* 0, the whole table 0) and an empty kwargs['minuit'], whatever instances
\* were built and fitted before it.
C18_FreshInstanceDefaults ==
    (last_call.op = "__init__" /\ shares_default) =>
        /\ model = InitialModel
        /\ misalignment = InitialMisalignment
        /\ minuit_kwargs = DefaultValues
        /\ kwargs_minuit = << >>

\* C19: whatever calls of update_psf_params are made, with NaN for any of the
\* arguments, none of r0, g1, g2 and no entry of the misalignment table is
\* NaN, the table having had no NaN when the PSF was built.
C19_NaNNeverInstalled ==
    /\ \A i \in Rows, j \in Cols : InitialMisalignment[i][j] /= NaN
    /\ model.r0 /= NaN /\ model.g1 /= NaN /\ model.g2 /= NaN
    /\ \A i \in Rows, j \in Cols : misalignment[i][j] /= NaN

\* a call with NaN for every argument has followed a call that installed a
\* number, and has left it installed
C19_Witness ==
    /\ last_call.op = "update_psf_params"
    /\ last_call.args = AllNaN
    /\ nupdates >= 2
    /\ Now = Before
    /\ \E n \in Names : Now[n] = -1

\* C20: the search configuration of a PSF built while the default dict is as
\* written declares every one of the 27 parameters in full: its initial value
\* under its name, and its fix_, limit_ and error_ entries under its own name.
C20_CompleteDeclarations ==
    default_kwargs = << >> =>
        \A n \in Names :
            {n, "fix_" \o n, "limit_" \o n, "error_" \o n} \subseteq minuit_keys

====
